---- MODULE Spec2Model ----
(***************************************************************************)
(* Model of app.py: the two Flask handlers get_item_image (/item-image)    *)
(* and get_combined_item_image (/main/ICON/<int:itemid>.png).              *)
(*                                                                         *)
(* A handler is split into steps at its network calls only: a state with   *)
(* pc = "probe" is the handler blocked inside requests.head for the        *)
(* candidate at loop position idx, pc = "fetch" is the handler blocked     *)
(* inside requests.get.  Everything between two network calls is one step. *)
(***************************************************************************)
EXTENDS Integers, Sequences, FiniteSets, TLC

VARIABLES item_data, holders, pc, req, fs, rare_type, background, idx,
          item_image_url, item_image, combined, resp

vars == <<item_data, holders, pc, req, fs, rare_type, background, idx,
          item_image_url, item_image, combined, resp>>

(* ------------------------------ bounds --------------------------------- *)
\* largest width and height of a bitmap
MaxDim == 2
\* largest number of shard directories that hold the requested image
MaxHolders == 2
\* largest number of records of main.json
MaxCatalog == 2

(* ----------------------------- text helpers ---------------------------- *)
DigitChars == <<"0", "1", "2", "3", "4", "5", "6", "7", "8", "9">>

RECURSIVE Str(_)
\* str(n) of a non-negative integer, as a sequence of characters
Str(n) == IF n < 10 THEN <<DigitChars[n + 1]>>
          ELSE Append(Str(n \div 10), DigitChars[(n % 10) + 1])

\* f"{batch_num:02d}": at least two digits, padded with a zero
BatchStr(batch_num) == IF batch_num < 10 THEN <<"0">> \o Str(batch_num)
                       ELSE Str(batch_num)

\* range(a, b) of Python
Range(a, b) == [i \in 1..(IF b > a THEN b - a ELSE 0) |-> a + i - 1]

(* --------------------------- request values ---------------------------- *)
\* request.args.get(name): None when the parameter is not in the query
Absent == [present |-> FALSE, val |-> <<>>]
Given(s) == [present |-> TRUE, val |-> s]

NoKey == [present |-> FALSE, val |-> ""]
KeyParams == {NoKey} \cup {[present |-> TRUE, val |-> k] :
                            k \in {"NRCODEX", "nrcodex", "NRCODE", ""}}

IdParams == {Absent, Given(<<>>), Given(<<"7">>), Given(<<"-", "1">>),
             Given(<<"a", "b">>)}

\* <int:itemid> of the route: Flask hands the handler a non-negative int
PathIds == {100, 200, 999}

\* a key that is missing: accepted (the check is skipped when no key is sent)
KeyRejectedNoKeyPasses(key) == key.present /\ key.val # "NRCODEX"

\* key != 'NRCODEX'
KeyRejected(key) == ~key.present \/ key.val # "NRCODEX"

\* not item_id
IdMissing(item_id) == ~item_id.present \/ item_id.val = <<>>

NoReq == [endpoint |-> "none", key |-> NoKey, item_id |-> Absent, itemid |-> -1]

(* ------------------------------ catalog -------------------------------- *)
NoRare == "<no Rare key>"
Records == [Id : {100, 200}, Rare : {"Legendary", NoRare}]

RECURSIVE SeqsUpTo(_, _)
SeqsUpTo(S, n) == IF n = 0 THEN {<<>>}
                  ELSE LET shorter == SeqsUpTo(S, n - 1)
                       IN shorter \cup {Append(s, x) : s \in shorter, x \in S}

\* item_data after load_item_data: None, or the list read from main.json
NotLoaded == [loaded |-> FALSE, items |-> <<>>]
CatalogStates == {NotLoaded} \cup
                 {[loaded |-> TRUE, items |-> s] : s \in SeqsUpTo(Records, MaxCatalog)}
BaseCatalog == [loaded |-> TRUE, items |-> <<[Id |-> 100, Rare |-> "Legendary"]>>]

\* the lookup ignores the id and takes the first record
ItemFoundAnyRecord(items, itemid) ==
    IF items = <<>> THEN [found |-> FALSE, item |-> [Id |-> -1, Rare |-> NoRare]]
    ELSE [found |-> TRUE, item |-> items[1]]

\* next((item for item in item_data if item.get("Id") == itemid), None)
ItemFound(items, itemid) ==
    LET hits == {i \in 1..Len(items) : items[i].Id = itemid}
    IN IF hits = {} THEN [found |-> FALSE, item |-> [Id |-> -1, Rare |-> NoRare]]
       ELSE [found |-> TRUE,
             item |-> items[CHOOSE i \in hits : \A j \in hits : i <= j]]

\* item_found.get("Rare", "Default")
RareType(item) == IF item.Rare = NoRare THEN "Default" ELSE item.Rare

(* ------------------------------ shards --------------------------------- *)
\* the directories of the five remote repositories: <<repository, batch>>
\* (repository 1 holds batch-01..06, the next ones start at 07, 13, 19, 25)
Shards == {<<((b - 1) \div 6) + 1, b>> : b \in 1..30}

RECURSIVE SetsUpTo(_, _)
SetsUpTo(S, n) == IF n = 0 THEN {{}}
                  ELSE LET smaller == SetsUpTo(S, n - 1)
                       IN smaller \cup {s \cup {x} : s \in smaller, x \in S}

HolderSets == SetsUpTo(Shards, MaxHolders)
BaseHolders == {<<2, 8>>}

\* the url built for one candidate
Url(repo_num, batch_str, id) == [repo |-> repo_num, batch |-> batch_str, file |-> id]
NoUrl == [repo |-> 0, batch |-> <<>>, file |-> <<>>]

\* status of requests.head(url) when the shard answers
HeadStatus(url, miss) ==
    IF \E h \in holders : h[1] = url.repo /\ BatchStr(h[2]) = url.batch
    THEN 200 ELSE miss

MissStatuses == {301, 404, 503}

\* batch range of one repository, direct endpoint
BatchRangeDirect(repo_num) ==
    IF repo_num = 1 THEN Range(1, 7)
    ELSE LET start_batch == (repo_num - 1) * 6 + 1
         IN Range(start_batch, start_batch + 6)

\* start_batch without the + 1: each range starts on the last batch of the
\* repository before
BatchRangeCompositeOffByOne(repo_num) ==
    IF repo_num = 1 THEN Range(1, 7)
    ELSE LET start_batch == (repo_num - 1) * 6
         IN Range(start_batch, start_batch + 6)

\* batch range of one repository, composite endpoint
BatchRangeComposite(repo_num) ==
    IF repo_num = 1 THEN Range(1, 7)
    ELSE LET start_batch == (repo_num - 1) * 6 + 1
         IN Range(start_batch, start_batch + 6)

RECURSIVE Flatten(_)
Flatten(ss) == IF ss = <<>> THEN <<>> ELSE Head(ss) \o Flatten(Tail(ss))

\* the nested loops of the direct endpoint, in iteration order
CandidatesDirect ==
    Flatten([k \in 1..Len(Range(1, 6)) |->
               LET repo_num == Range(1, 6)[k]
                   batch_range == BatchRangeDirect(repo_num)
               IN [j \in 1..Len(batch_range) |->
                     [repo |-> repo_num, batch |-> batch_range[j]]]])

\* the nested loops of the composite endpoint, in iteration order
CandidatesComposite ==
    Flatten([k \in 1..Len(Range(1, 6)) |->
               LET repo_num == Range(1, 6)[k]
                   batch_range == BatchRangeComposite(repo_num)
               IN [j \in 1..Len(batch_range) |->
                     [repo |-> repo_num, batch |-> batch_range[j]]]])

\* every status but 404 counts as a hit
ProbeHitNot404(status) == status # 404

\* response.status_code == 200
ProbeHit(status) == status = 200

\* timeout argument of requests.head and of requests.get: none is passed
NoTimeout == "None"
ProbeTimeout == NoTimeout
FetchTimeout == NoTimeout

(* ---------------------------- backgrounds ------------------------------ *)
BgNames == {"Legendary", "Default"}
FileStates == {"absent", "image", "unreadable"}
NoFs == [n \in BgNames |-> "unobserved"]
FsStates == [BgNames -> FileStates]

NoBitmap == [w |-> 0, h |-> 0]
Sizes == [w : 1..MaxDim, h : 1..MaxDim]
NoBackground == [name |-> "", w |-> 0, h |-> 0]

\* os.path.exists
Exists(files, name) == files[name] # "absent"

\* no fallback to the default background
BackgroundPathNoFallback(files, rare) ==
    IF Exists(files, rare) THEN rare ELSE ""

\* lines 101-108: the background file the handler opens, "" when none
BackgroundPath(files, rare) ==
    IF Exists(files, rare) THEN rare
    ELSE IF Exists(files, "Default") THEN "Default"
    ELSE ""

(* ----------------------------- compositing ----------------------------- *)
Min(a, b) == IF a < b THEN a ELSE b
Max(a, b) == IF a > b THEN a ELSE b

\* item_width > target_max_dimension or item_height > target_max_dimension,
\* with target_max_dimension = min(bg_width, bg_height) * 0.7
NeedsResize(bg, fg) ==
    LET m == Min(bg.w, bg.h)
    IN 10 * fg.w > 7 * m \/ 10 * fg.h > 7 * m

\* (int(item_width * scale_factor), int(item_height * scale_factor)) with
\* scale_factor = target_max_dimension / max(item_width, item_height).
\* Exact arithmetic; it agrees with the double arithmetic of the code for
\* all sizes up to 4 (from 5 on the double product can round below an
\* integer and int() then yields one less).
NewItemSize(bg, fg) ==
    LET m == Min(bg.w, bg.h)
        big == Max(fg.w, fg.h)
    IN [w |-> (7 * m * fg.w) \div (10 * big),
        h |-> (7 * m * fg.h) \div (10 * big)]

\* Image.resize: Pillow rejects a target with a side below 1 (ValueError)
ResizeRaises(size) == size.w < 1 \/ size.h < 1

\* lines 167-186: the bitmap produced, or the exception that escapes
Compose(bg, fg) ==
    LET resized == IF NeedsResize(bg, fg) THEN NewItemSize(bg, fg) ELSE fg
        paste_x == (bg.w - resized.w) \div 2
        paste_y == (bg.h - resized.h) \div 2
        temp_image == [w |-> bg.w, h |-> bg.h]
    IN IF NeedsResize(bg, fg) /\ ResizeRaises(resized)
       THEN [ok |-> FALSE, size |-> NoBitmap, item |-> resized, x |-> 0, y |-> 0]
       ELSE [ok |-> TRUE, size |-> [w |-> temp_image.w, h |-> temp_image.h],
             item |-> resized, x |-> paste_x, y |-> paste_y]

(* ------------------------------ responses ------------------------------ *)
Response(status, body, raised, location) ==
    [status |-> status, body |-> body, raised |-> raised, location |-> location]
NoResp == Response(0, "", "", NoUrl)

\* an exception no handler catches: Flask answers 500
Unhandled(exc) == Response(500, "Internal Server Error", exc, NoUrl)

(* ------------------------------- state --------------------------------- *)
Init ==
    /\ \/ item_data \in CatalogStates /\ holders = BaseHolders
       \/ item_data = BaseCatalog /\ holders \in HolderSets
    /\ pc = "idle"
    /\ req = NoReq
    /\ fs = NoFs
    /\ rare_type = ""
    /\ background = NoBackground
    /\ idx = 0
    /\ item_image_url = NoUrl
    /\ item_image = NoBitmap
    /\ combined = NoBitmap
    /\ resp = NoResp

\* the handler returns or aborts: the response is sent, the loop is left
Finish(r) ==
    /\ pc' = "done"
    /\ resp' = r
    /\ idx' = 0

\* the server is waiting for a request
Accepting == pc = "idle"

\* app.run: the response is sent, the handler's locals are released and the
\* server waits for the next request
ServeNext ==
    /\ pc = "done"
    /\ pc' = "idle"
    /\ req' = NoReq
    /\ fs' = NoFs
    /\ rare_type' = ""
    /\ background' = NoBackground
    /\ idx' = 0
    /\ item_image_url' = NoUrl
    /\ item_image' = NoBitmap
    /\ combined' = NoBitmap
    /\ resp' = NoResp
    /\ UNCHANGED <<item_data, holders>>

\* lines 48-56, then up to the first requests.head of line 78
GetItemImage(key, item_id) ==
    /\ Accepting
    /\ req' = [endpoint |-> "item-image", key |-> key, item_id |-> item_id, itemid |-> -1]
    /\ rare_type' = ""
    /\ background' = NoBackground
    /\ item_image_url' = NoUrl
    /\ item_image' = NoBitmap
    /\ combined' = NoBitmap
    /\ IF KeyRejected(key)
       THEN Finish(Response(403, "Invalid key", "", NoUrl))
       ELSE IF IdMissing(item_id)
       THEN Finish(Response(400, "Item ID is required", "", NoUrl))
       ELSE /\ pc' = "probe"
            /\ idx' = 1
            /\ resp' = NoResp
    /\ fs' = NoFs
    /\ UNCHANGED <<item_data, holders>>

\* lines 78-83 and the loop heads of lines 59-75: the answer to the
\* requests.head in flight, then up to the next requests.head
ProbeDirect(answer, miss) ==
    /\ pc = "probe"
    /\ req.endpoint = "item-image"
    /\ LET c == CandidatesDirect[idx]
           url == Url(c.repo, BatchStr(c.batch), req.item_id.val)
       IN CASE answer = "silent" ->
                 IF ProbeTimeout = NoTimeout
                 THEN pc' = "hung" /\ UNCHANGED <<resp, idx>>
                 ELSE Finish(Unhandled("requests.Timeout"))
            [] answer = "error" -> Finish(Unhandled("requests.ConnectionError"))
            [] OTHER ->
                 IF ProbeHit(HeadStatus(url, miss))
                 THEN Finish(Response(302, "redirect", "", url))
                 ELSE IF idx < Len(CandidatesDirect)
                 THEN idx' = idx + 1 /\ UNCHANGED <<pc, resp>>
                 ELSE Finish(Response(404, "Item image not found", "", NoUrl))
    /\ UNCHANGED <<item_data, holders, req, fs, rare_type, background,
                   item_image_url, item_image, combined>>

\* lines 88-114, then up to the first requests.head of line 138.  files is
\* what os.path.exists and Image.open find on disk, size the size of the
\* background bitmap when it opens.
GetCombinedItemImage(itemid, files, size) ==
    /\ Accepting
    /\ req' = [endpoint |-> "ICON", key |-> NoKey, item_id |-> Absent, itemid |-> itemid]
    /\ item_image_url' = NoUrl
    /\ item_image' = NoBitmap
    /\ combined' = NoBitmap
    /\ LET item_found == ItemFound(item_data.items, itemid)
           rare == RareType(item_found.item)
           path == BackgroundPath(files, rare)
       IN IF ~item_data.loaded
          THEN /\ Finish(Response(500, "Item data not loaded", "", NoUrl))
               /\ fs' = NoFs /\ rare_type' = "" /\ background' = NoBackground
          ELSE IF ~item_found.found
          THEN /\ Finish(Response(404, "Item not found", "", NoUrl))
               /\ fs' = NoFs /\ rare_type' = "" /\ background' = NoBackground
          ELSE /\ fs' = files
               /\ rare_type' = rare
               /\ IF path = ""
                  THEN /\ Finish(Response(500, "Background image not found and default is missing", "", NoUrl))
                       /\ background' = NoBackground
                  ELSE IF files[path] = "unreadable"
                  THEN /\ Finish(Response(500, "Could not load background image", "", NoUrl))
                       /\ background' = NoBackground
                  ELSE /\ background' = [name |-> path, w |-> size.w, h |-> size.h]
                       /\ pc' = "probe"
                       /\ idx' = 1
                       /\ resp' = NoResp
    /\ UNCHANGED <<item_data, holders>>

\* lines 138-147 and the loop heads of lines 119-135: the answer to the
\* requests.head in flight, then up to the next requests.head or, once a
\* probe hit, up to the requests.get of line 151
ProbeComposite(answer, miss) ==
    /\ pc = "probe"
    /\ req.endpoint = "ICON"
    /\ LET c == CandidatesComposite[idx]
           url == Url(c.repo, BatchStr(c.batch), Str(req.itemid))
       IN CASE answer = "silent" ->
                 IF ProbeTimeout = NoTimeout
                 THEN pc' = "hung" /\ UNCHANGED <<resp, idx, item_image_url>>
                 ELSE Finish(Unhandled("requests.Timeout")) /\ UNCHANGED item_image_url
            [] answer = "error" ->
                 Finish(Unhandled("requests.ConnectionError")) /\ UNCHANGED item_image_url
            [] OTHER ->
                 IF ProbeHit(HeadStatus(url, miss))
                 THEN /\ item_image_url' = url
                      /\ pc' = "fetch"
                      /\ idx' = 0
                      /\ UNCHANGED resp
                 ELSE IF idx < Len(CandidatesComposite)
                 THEN idx' = idx + 1 /\ UNCHANGED <<pc, resp, item_image_url>>
                 ELSE /\ Finish(Response(404, "Item image not found", "", NoUrl))
                      /\ UNCHANGED item_image_url
    /\ fs' = NoFs
    /\ UNCHANGED <<item_data, holders, req, rare_type, background,
                   item_image, combined>>

\* what the located shard sends for the requests.get
FetchAnswers == {"silent", "error", "status 404", "status 500",
                 "garbage", "truncated", "image"}

\* lines 151-194: the answer to the requests.get in flight, decoding,
\* compositing and the response
FetchForeground(answer, size) ==
    /\ pc = "fetch"
    /\ CASE answer = "silent" ->
              IF FetchTimeout = NoTimeout
              THEN pc' = "hung" /\ UNCHANGED <<resp, idx, item_image, combined>>
              ELSE /\ Finish(Response(502, "Could not fetch item image", "", NoUrl))
                   /\ UNCHANGED <<item_image, combined>>
         [] answer \in {"error", "status 404", "status 500"} ->
              \* requests.exceptions.RequestException, raise_for_status included
              /\ Finish(Response(502, "Could not fetch item image", "", NoUrl))
              /\ UNCHANGED <<item_image, combined>>
         [] answer = "garbage" ->
              \* Image.open: UnidentifiedImageError
              /\ Finish(Response(502, "External API did not return a valid image", "", NoUrl))
              /\ UNCHANGED <<item_image, combined>>
         [] answer = "truncated" ->
              \* Image.open succeeds, convert("RGBA") loads the data: OSError
              /\ Finish(Response(500, "Unexpected error with external image", "", NoUrl))
              /\ UNCHANGED <<item_image, combined>>
         [] OTHER ->
              LET out == Compose(background, size)
              IN /\ item_image' = size
                 /\ IF out.ok
                    THEN /\ combined' = out.size
                         /\ Finish(Response(200, "image/png", "", NoUrl))
                    ELSE /\ combined' = NoBitmap
                         /\ Finish(Unhandled("ValueError"))
    /\ UNCHANGED <<item_data, holders, req, fs, rare_type, background,
                   item_image_url>>

Next ==
    \/ \E key \in KeyParams, item_id \in IdParams : GetItemImage(key, item_id)
    \/ \E answer \in {"silent", "error", "status"}, miss \in MissStatuses :
          ProbeDirect(answer, miss)
    \/ \E itemid \in PathIds, files \in FsStates, size \in Sizes :
          GetCombinedItemImage(itemid, files, size)
    \/ \E answer \in {"silent", "error", "status"}, miss \in MissStatuses :
          ProbeComposite(answer, miss)
    \/ \E answer \in FetchAnswers, size \in Sizes : FetchForeground(answer, size)
    \/ ServeNext

Spec == Init /\ [][Next]_vars

(* ------------------------------ properties ----------------------------- *)
\* canonical order of the shard directories: repository, then batch
ShardBefore(g, h) == g[1] < h[1] \/ (g[1] = h[1] /\ g[2] < h[2])
LeastHolder == CHOOSE h \in holders : \A g \in holders : ~ShardBefore(g, h)
LeastHolderUrl(id) == Url(LeastHolder[1], BatchStr(LeastHolder[2]), id)

\* the candidate of the requests.head in flight
InFlight == IF req.endpoint = "item-image" THEN CandidatesDirect[idx]
            ELSE CandidatesComposite[idx]

\* C1: the location either endpoint uses is the first shard, in
\* (repository, batch) order, that answers the probe with success, whatever
\* the set of shards that hold the image; no candidate after that shard is
\* probed; and a search that ends with "not found" has no such shard.  The
\* location is a function of the id and of the shard contents alone, so a
\* repeated search returns it again.
C1_FirstHitWins ==
    /\ pc = "probe" =>
          \A h \in holders : ~ShardBefore(h, <<InFlight.repo, InFlight.batch>>)
    /\ resp.status = 302 =>
          holders # {} /\ resp.location = LeastHolderUrl(req.item_id.val)
    /\ item_image_url # NoUrl =>
          holders # {} /\ item_image_url = LeastHolderUrl(Str(req.itemid))
    /\ resp.body = "Item image not found" => holders = {}

C1_Witness ==
    /\ pc = "done"
    /\ resp.status = 200
    /\ Cardinality(holders) = 2
    /\ \E g, h \in holders : g[1] < h[1] /\ item_image_url.repo = g[1]

\* C2: a probe that times out or raises a transport error does not fail
\* the request.
C2_ProbeFailureIsNotFatal ==
    resp.raised \notin {"requests.ConnectionError", "requests.Timeout"}

\* C3: with the catalog loaded, a composite request for an id the catalog
\* does not hold is answered 404 and the handler never waits for a probe or
\* a fetch.
C3_AbsentIdNoNetwork ==
    (/\ req.endpoint = "ICON"
     /\ item_data.loaded
     /\ \A i \in 1..Len(item_data.items) : item_data.items[i].Id # req.itemid)
    => /\ pc = "done"
       /\ resp.status = 404
       /\ item_image_url = NoUrl

C3_Witness ==
    /\ req.endpoint = "ICON"
    /\ item_data.loaded
    /\ Len(item_data.items) = 2
    /\ \A i \in 1..Len(item_data.items) : item_data.items[i].Id # req.itemid
    /\ resp.status = 404

\* C4: a direct-fetch request whose key is absent or is not the configured
\* value is answered 403 whatever its id, and the handler never waits for a
\* probe.
C4_WrongKeyFailsClosed ==
    (/\ req.endpoint = "item-image"
     /\ (req.key.present => req.key.val # "NRCODEX"))
    => /\ pc = "done"
       /\ resp.status = 403

C4_Witness ==
    /\ req.endpoint = "item-image"
    /\ ~req.key.present
    /\ req.item_id = Given(<<"7">>)
    /\ resp.status = 403

\* C5: once a shard location was found, every request that ends without a
\* decoded foreground image ends with status 502.
C5_FetchFailureIs502 ==
    (pc = "done" /\ item_image_url # NoUrl /\ item_image = NoBitmap)
    => resp.status = 502

C7_NoRequestStalls == pc # "hung"

\* C8: whenever a foreground image was decoded, compositing completes and
\* the bitmap sent has the width and the height of the background.
C8_OutputHasBackgroundSize ==
    (pc = "done" /\ item_image # NoBitmap)
    => /\ resp.status = 200
       /\ combined = [w |-> background.w, h |-> background.h]

\* the id parameter is a non-empty string of decimal digits
ParsesAsNonNegInt(item_id) ==
    /\ item_id.present
    /\ item_id.val # <<>>
    /\ \A i \in 1..Len(item_id.val) :
          \E d \in 1..Len(DigitChars) : item_id.val[i] = DigitChars[d]

\* C9: a direct-fetch request with the right key and an id that is not a
\* non-negative integer is answered 400 and the handler never waits for a
\* probe.
C9_MalformedIdRejected ==
    (/\ req.endpoint = "item-image"
     /\ req.key.present /\ req.key.val = "NRCODEX"
     /\ ~ParsesAsNonNegInt(req.item_id))
    => /\ pc = "done"
       /\ resp.status = 400

\* number of candidates of one repository
BatchCount(cs, r) == Cardinality({i \in 1..Len(cs) : cs[i].repo = r})

EnumerationIsPartition ==
    LET cs == CandidatesComposite
    IN /\ CandidatesDirect = cs
       /\ cs # <<>> /\ cs[1].repo = 1
       /\ \A i \in 1..Len(cs) : cs[i].batch = i
       /\ \A i \in 1..(Len(cs) - 1) : cs[i].repo <= cs[i + 1].repo
       /\ \A i \in 1..Len(cs) : BatchCount(cs, cs[i].repo) = BatchCount(cs, 1)

\* C10: both endpoints enumerate the same candidates; the n-th candidate is
\* batch n, so the batches start at 1 and rise by one without gap or
\* repetition; repositories never decrease along the enumeration and each
\* covers the same number of batches, starting with repository 1; and the
\* probe in flight at loop position n is for batch n.
C10_BatchPartition ==
    /\ EnumerationIsPartition
    /\ pc = "probe" => InFlight.batch = idx

C10_Witness ==
    /\ pc = "probe"
    /\ req.endpoint = "ICON"
    /\ idx = 7
    /\ InFlight.repo = 2
====
